---------------------------- MODULE Spec2Model ----------------------------
(***************************************************************************)
(* State-machine model of python/imagej/FIBSEM/serial_section_registration *)
(* (extractBlockMatches, pointmatchingTasks, ensurePointMatches,           *)
(* makeLinkedTiles, align, TranslatedSectionGet, viewAligned).             *)
(*                                                                         *)
(* Images are identified by their position in the sorted directory         *)
(* listing: image k is the k-th file, and the list handed to a run is the  *)
(* prefix 0..count-1.  Real numbers (translations, matrix entries) are     *)
(* fixed-point integers in units of 1/Den.                                 *)
(*                                                                         *)
(* The last part models python/imagej/IsoView-GCaMP/lib/isoview.py         *)
(* (deconvolveTimePoints, deconvolveTimePoint) under SpecIso.              *)
(***************************************************************************)
EXTENDS Integers, Sequences, FiniteSets, TLC

\* ---------------------------------------------------------------- bounds
MaxCount == 3        \* longest list of section images
MaxAdjacent == 2     \* largest n_adjacent
MaxCalls == 2        \* runs of viewAligned over the same csvDir
Den == 4             \* fixed-point resolution: the integer k stands for k/Den
Width == 2           \* image width in pixels
Height == 2          \* image height in pixels
MaxFolders == 2      \* isoview: most TM00 time-point folders in srcDir
MaxRuns == 2         \* isoview: calls of deconvolveTimePoint over one targetDir

\* ------------------------------------------------------ program constants
MatRows == 3         \* nativeArray('d', [3, 4])
MatCols == 4
DxIndex == 2         \* matrix[2]
DyIndex == 5         \* matrix[5]
MinMatches == 20     \* max(20, len(sourcePoints) / 5) / 2
PointsDivisor == 5
HalfDivisor == 2
NumCameras == 4      \* isoview: 4 != len(filepaths)

\* Inputs the environment can supply.
MeshResolutions == {10, 15}       \* params["meshResolution"]
DenseCounts == {9, 22}                \* matches block matching may find
SiftCounts == {0, 7}              \* matches SIFT may find
TransPairs == {<<-3, 9>>, <<5, -5>>}  \* translations of free tiles (1/Den units)
Threads == {1, 2}                 \* threads reading the lazy volume

Max(a, b) == IF a >= b THEN a ELSE b

\* Python int(): truncation toward zero of the rational num/den, den > 0.
IntTrunc(num, den) == IF num >= 0 THEN num \div den ELSE -((-num) \div den)

Images == 0..(MaxCount - 1)
AllPairs == {p \in Images \X Images : p[1] < p[2]}

\* --------------------------------------------------- extractBlockMatches
\* Number of mesh source points of TransformMesh(meshResolution, w, h).
MeshPointCount(res) == res * res

\* "if os.path.exists(csvpath): return"
CsvExistsMut(files, p) == FALSE
CsvExists(files, p) == files[p] # <<>>

\* "if len(sourceMatches) < max(20, len(sourcePoints) / 5) / 2" (Python 2
\* integer divisions).
NeedsSIFTMut(m, n) == m <= Max(MinMatches, n \div PointsDivisor) \div HalfDivisor
NeedsSIFT(m, n) == m < Max(MinMatches, n \div PointsDivisor) \div HalfDivisor

\* The except clause: syncPrint(sys.exc_info()) and then
\* traceback.format_exception() called without its three required arguments,
\* which raises TypeError out of the handler and so out of the task.
HandlerRaises == TRUE

\* What one execution of extractBlockMatches did: how it ended, the number of
\* block matches (-1: none computed), whether SIFT ran, the number of SIFT
\* matches (-1: none computed).
NotRun == [outcome |-> "none", dense |-> -1, sift |-> FALSE, siftSize |-> -1]

\* One execution of extractBlockMatches for pair p under mesh resolution res.
\*   exc: the stage at which an exception is raised ("none", "match", "sift")
\*   m:   matches found by block matching;  s: matches found by SIFT
\* Result: the files afterwards, the future's state, and a record of what ran.
ExtractBlockMatches(files, p, res, exc, m, s) ==
  IF CsvExists(files, p)
  THEN [files |-> files, future |-> "done",
        ran |-> [outcome |-> "skipped", dense |-> -1,
                 sift |-> FALSE, siftSize |-> -1]]
  ELSE IF exc = "match"
  THEN [files |-> files,
        future |-> IF HandlerRaises THEN "raised" ELSE "done",
        ran |-> [outcome |-> "exception", dense |-> -1,
                 sift |-> FALSE, siftSize |-> -1]]
  ELSE IF NeedsSIFT(m, MeshPointCount(res))
  THEN IF exc = "sift"
       THEN [files |-> files,
             future |-> IF HandlerRaises THEN "raised" ELSE "done",
             ran |-> [outcome |-> "exception", dense |-> m,
                      sift |-> TRUE, siftSize |-> -1]]
       ELSE [files |-> [files EXCEPT ![p] =
                          <<[params |-> res, method |-> "SIFT", size |-> s]>>],
             future |-> "done",
             ran |-> [outcome |-> "saved", dense |-> m,
                      sift |-> TRUE, siftSize |-> s]]
  ELSE [files |-> [files EXCEPT ![p] =
                     <<[params |-> res, method |-> "blockmatching", size |-> m]>>],
        future |-> "done",
        ran |-> [outcome |-> "saved", dense |-> m,
                 sift |-> FALSE, siftSize |-> -1]]

\* ---------------------------------------------------- pointmatchingTasks
\* for i in xrange(len(filepaths) - n_adjacent):
\*   for inc in xrange(1, n_adjacent + 1): yield (i, i + inc)
PairIterMut(count, n) ==
  [k \in 1..(count * n) |->
     <<(k - 1) \div n, (k - 1) \div n + ((k - 1) % n) + 1>>]

PairIter(count, n) ==
  [k \in 1..(Max(0, count - n) * n) |->
     <<(k - 1) \div n, (k - 1) \div n + ((k - 1) % n) + 1>>]


\* ------------------------------------------------------ lib.features (I/O)
\* loadPointMatches(name1, name2, csvDir, params): the stored matches, or None
\* (<<>>) when there is no file for the pair or it was stored under other
\* parameters.
LoadPointMatches(files, p, res) ==
  IF files[p] = <<>> \/ files[p][1].params # res THEN <<>> ELSE files[p]

\* -------------------------------------------------- lib.registration (I/O)
\* A number is written as its integer part and its fraction, and read back.
FormatNum(v) == <<v \div Den, v % Den>>
ParseNum(f) == f[1] * Den + f[2]
SaveMatrices(matrices) ==
  [i \in 1..Len(matrices) |->
     [j \in 1..Len(matrices[i]) |-> FormatNum(matrices[i][j])]]
LoadMatrices(rows) ==
  [i \in 1..Len(rows) |-> [j \in 1..Len(rows[i]) |-> ParseNum(rows[i][j])]]

\* ------------------------------------------------------------------ align
\* "if matrices: return matrices": None and the empty list are both false.
MatricesFoundMut(matrices) == FALSE
MatricesFound(matrices) == Len(matrices) > 0

\* tc.fixTile(tiles[len(tiles) / 2]), Python 2 integer division.
FixedIndexMut(n) == (n - 1) \div 2
FixedIndex(n) == n \div 2

\* TranslationModel2D.toMatrix(a) on a = nativeArray('d', [3, 4]): writes the
\* 2x3 affine [1 0 tx; 0 1 ty] into the top-left corner of the zeroed array.
ToMatrix(t) ==
  [r \in 1..MatRows |-> [c \in 1..MatCols |->
     IF r <= 2 /\ c <= 3
     THEN IF c = 3 THEN t[r] ELSE IF r = c THEN Den ELSE 0
     ELSE 0]]

\* a[0] + a[1] + a[2]
Flatten(a) == a[1] \o a[2] \o a[3]

\* TileConfiguration.optimizeSilentlyConcurrent: the fixed tiles keep their
\* model, every other tile ends at some translation.
OptimizeModels(n, fixed) ==
  {f \in [0..(n - 1) -> TransPairs \cup {<<0, 0>>}] :
     \A i \in 0..(n - 1) : IF i \in fixed THEN f[i] = <<0, 0>>
                                           ELSE f[i] \in TransPairs}

\* ------------------------------------------------- TranslatedSectionGet.get
\* dx, dy = int(matrix[2] + 0.5), int(matrix[5] + 0.5)
ShiftOf(matrix) ==
  <<IntTrunc(2 * matrix[DxIndex + 1] + Den, 2 * Den),
    IntTrunc(2 * matrix[DyIndex + 1] + Den, 2 * Den)>>

\* Pixel (x, y) of the raw image of section index (never 0).
Raw(index, x, y) == index * Width * Height + y * Width + x + 1

\* Views.interval(Views.translate(Views.extendZero(img), [dx, dy]), aimg)
TranslatedRow(index, shift, y) ==
  [x \in 1..Width |->
     IF /\ (x - 1) - shift[1] \in 0..(Width - 1)
        /\ (y - 1) - shift[2] \in 0..(Height - 1)
     THEN Raw(index, (x - 1) - shift[1], (y - 1) - shift[2])
     ELSE 0]
Translated(index, shift) ==
  [y \in 1..Height |-> TranslatedRow(index, shift, y)]

VARIABLES
  calls,        \* number of viewAligned runs started
  pc,           \* position of the main thread
  count,        \* len(filepaths) of the current run
  n_adjacent,   \* paramsTileConfiguration["n_adjacent"]
  params,       \* params["meshResolution"] of the current run
  csv,          \* pointmatches files in csvDir, by image pair
  matricesFile, \* rows of csvDir/matrices.csv, <<>> when there is none
  status,       \* the batch's futures, by position in the task generator
  nextTask,     \* next position the generator yields
  ran,          \* what each task of the batch did, by position
  edges,        \* connections made by makeLinkedTiles
  fixedTiles,   \* tiles fixed in the TileConfiguration
  work,         \* stages the current align call has run
  ret,          \* matrices returned by the current align call
  firstRet,     \* matrices returned by the call that persisted them
  persistCall,  \* the call that persisted the matrices, 0 if none yet
  aimg,         \* TranslatedSectionGet.aimg, the view's pixel buffer
  gpc, gidx, gshift, grow, \* the threads inside TranslatedSectionGet.get
  tmFolders,    \* isoview: camera indices of the KLB files of each TM00 folder
  ipc,          \* isoview: position of deconvolveTimePoints, or how it ended
  ivalid,       \* isoview: folder the validation loop is at
  ilast,        \* isoview: folder whose dict the name "filepaths" is bound to
  invoked,      \* isoview: folders handed to deconvolveTimePoint by line 112
  targetFiles,  \* isoview: files under targetDir, as <<time point, name>>
  dpc,          \* isoview: position of deconvolveTimePoint, or how it ended
  dtm,          \* isoview: time point of the current deconvolveTimePoint call
  dkind,        \* isoview: type of its filepaths argument, "list" or "dict"
  dsubmitted,   \* isoview: computeForwardTransforms tasks the call submitted
  dloaded,      \* isoview: the call loaded the matrices
  druns         \* isoview: deconvolveTimePoint calls so far

vars == <<calls, pc, count, n_adjacent, params, csv, matricesFile, status,
          nextTask, ran, edges, fixedTiles, work, ret,
          firstRet, persistCall, aimg, gpc, gidx, gshift, grow,
          tmFolders, ipc, ivalid, ilast, invoked, targetFiles, dpc, dtm, dkind,
          dsubmitted, dloaded, druns>>

mainVars == <<calls, pc, count, n_adjacent, params, csv, matricesFile, status,
              nextTask, ran, edges, fixedTiles, work, ret,
              firstRet, persistCall>>
getVars == <<aimg, gpc, gidx, gshift, grow>>
isoVars == <<tmFolders, ipc, ivalid, ilast, invoked, targetFiles, dpc, dtm,
             dkind, dsubmitted, dloaded, druns>>

Tasks == PairIter(count, n_adjacent)

ZeroImg == [y \in 1..Height |-> [x \in 1..Width |-> 0]]

\* lib/isoview.py before any of its functions is called.
IsoviewIdle ==
  /\ ipc = "idle"
  /\ ivalid = 0
  /\ ilast = 0
  /\ invoked = <<>>
  /\ targetFiles = {}
  /\ dpc = "idle"
  /\ dtm = 0
  /\ dkind = "list"
  /\ dsubmitted = 0
  /\ dloaded = FALSE
  /\ druns = 0

Init ==
  /\ calls = 0
  /\ pc = "idle"
  /\ count \in 1..MaxCount
  /\ n_adjacent \in 1..MaxAdjacent
  /\ params \in MeshResolutions
  /\ csv = [p \in AllPairs |-> <<>>]
  /\ matricesFile = <<>>
  /\ status = <<>>
  /\ nextTask = 1
  /\ ran = <<>>
  /\ edges = {}
  /\ fixedTiles = {}
  /\ work = {}
  /\ ret = <<>>
  /\ firstRet = <<>>
  /\ persistCall = 0
  /\ aimg = ZeroImg
  /\ gpc = [t \in Threads |-> "idle"]
  /\ gidx = [t \in Threads |-> 0]
  /\ gshift = [t \in Threads |-> <<0, 0>>]
  /\ grow = [t \in Threads |-> 0]
  /\ IsoviewIdle
  /\ tmFolders = <<>>

\* ------------------------------------------------------------ viewAligned
\* A run of the script: viewAligned calls align, which returns the persisted
\* matrices when there are any and otherwise starts makeLinkedTiles, whose
\* first step is ensurePointMatches.  A run takes the image list and the
\* parameters as they are when it starts; csvDir is the same in every run.
StartCall ==
  /\ pc \in {"idle", "returned", "failed"}
  /\ calls < MaxCalls
  /\ calls' = calls + 1
  /\ edges' = {}
  /\ fixedTiles' = {}
  /\ nextTask' = 1
  /\ aimg' = ZeroImg
  /\ gpc' = [t \in Threads |-> "idle"]
  /\ gidx' = [t \in Threads |-> 0]
  /\ gshift' = [t \in Threads |-> <<0, 0>>]
  /\ grow' = [t \in Threads |-> 0]
  /\ IF MatricesFound(LoadMatrices(matricesFile))
     THEN /\ pc' = "returned"
          /\ ret' = LoadMatrices(matricesFile)
          /\ work' = {}
          /\ status' = <<>>
          /\ ran' = <<>>
     ELSE /\ pc' = "ensure"
          /\ ret' = <<>>
          /\ work' = {"extract"}
          /\ status' = [k \in 1..Len(PairIter(count, n_adjacent)) |-> "pending"]
          /\ ran' = [k \in 1..Len(PairIter(count, n_adjacent)) |-> NotRun]
  /\ UNCHANGED <<count, n_adjacent, params, csv, matricesFile, firstRet,
                 persistCall>>
  /\ UNCHANGED isoVars

\* ----------------------------------------------------- ensurePointMatches
\* w.chunkConsume(numCPUs() * 2, pointmatchingTasks(...)) submits the tasks the
\* generator yields, in order, and hands back their results in order; how far
\* submission runs ahead of the results depends on the machine.
Submit ==
  /\ pc = "ensure"
  /\ nextTask <= Len(status)
  /\ status' = [status EXCEPT ![nextTask] = "submitted"]
  /\ nextTask' = nextTask + 1
  /\ UNCHANGED <<calls, pc, count, n_adjacent, params, csv, matricesFile, ran,
                 edges, fixedTiles, work, ret, firstRet, persistCall>>
  /\ UNCHANGED getVars
  /\ UNCHANGED isoVars

\* A pool thread runs a submitted task: Task(extractBlockMatches, f1, f2, ...).
RunTask(k, exc, m, s) ==
  /\ pc = "ensure"
  /\ k \in 1..Len(status)
  /\ status[k] = "submitted"
  /\ LET r == ExtractBlockMatches(csv, Tasks[k], params, exc, m, s)
     IN /\ csv' = r.files
        /\ status' = [status EXCEPT ![k] = r.future]
        /\ ran' = [ran EXCEPT ![k] = r.ran]
  /\ UNCHANGED <<calls, pc, count, n_adjacent, params, matricesFile, nextTask,
                 edges, fixedTiles, work, ret, firstRet, persistCall>>
  /\ UNCHANGED getVars
  /\ UNCHANGED isoVars

\* The results before position k were handed back and the task at k raised:
\* Future.get raises, "except: print sys.exc_info()" catches it and "finally:
\* exeload.shutdown(); w.destroy()" ends the pools.  Tasks not yet yielded are
\* never submitted, tasks still held by the pool are cancelled.
TakeFailure(k) ==
  /\ pc = "ensure"
  /\ k \in 1..Len(status)
  /\ status[k] = "raised"
  /\ \A j \in 1..(k - 1) : status[j] = "done"
  /\ status' = [j \in 1..Len(status) |->
                  IF status[j] = "submitted" THEN "cancelled" ELSE status[j]]
  /\ pc' = "link"
  /\ nextTask' = 1
  /\ ran' = <<>>
  /\ UNCHANGED <<calls, count, n_adjacent, params, csv, matricesFile, edges,
                 fixedTiles, work, ret, firstRet, persistCall>>
  /\ UNCHANGED getVars
  /\ UNCHANGED isoVars

\* All tasks were yielded and all results handed back: awaitAll, then the
\* finally.
FinishBatch ==
  /\ pc = "ensure"
  /\ nextTask > Len(status)
  /\ \A k \in 1..Len(status) : status[k] = "done"
  /\ pc' = "link"
  /\ nextTask' = 1
  /\ ran' = <<>>
  /\ UNCHANGED <<calls, count, n_adjacent, params, csv, matricesFile, status,
                 edges, fixedTiles, work, ret, firstRet, persistCall>>
  /\ UNCHANGED getVars
  /\ UNCHANGED isoVars

\* -------------------------------------------------------- makeLinkedTiles
\* The loop after ensurePointMatches: load the matches of every pair of the
\* same iteration and connect the two tiles with them, whatever was loaded.
\* Tile.connect with None (no matches were loaded) either raises, which ends
\* align, or links the two tiles with a null collection: onNull.
MissingAt(k) == LoadPointMatches(csv, Tasks[k], params) = <<>>
Connection(k) ==
  [pair |-> Tasks[k], matches |-> LoadPointMatches(csv, Tasks[k], params)]

MakeLinkedTiles(onNull) ==
  /\ pc = "link"
  /\ work' = work \cup {"graph"}
  /\ status' = <<>>
  /\ LET missing == {k \in 1..Len(Tasks) : MissingAt(k)}
         stop == IF missing = {} \/ onNull = "link" THEN Len(Tasks) + 1
                 ELSE CHOOSE k \in missing : \A j \in missing : k <= j
     IN /\ edges' = {Connection(k) : k \in 1..(stop - 1)}
        /\ pc' = IF stop > Len(Tasks) THEN "optimize" ELSE "failed"
  /\ UNCHANGED <<calls, count, n_adjacent, params, csv, matricesFile, nextTask, ran, fixedTiles, ret, firstRet,
                 persistCall>>
  /\ UNCHANGED getVars
  /\ UNCHANGED isoVars

\* ------------------------------------------------------------------ align
\* The rest of align: fix the middle tile, optimize, flatten every model's
\* matrix, saveMatrices, return.  The tiles and their connections are local.
Optimize(models) ==
  /\ pc = "optimize"
  /\ fixedTiles' = {FixedIndex(count)}
  /\ work' = work \cup {"optimize"}
  /\ ret' = [i \in 1..count |-> Flatten(ToMatrix(models[i - 1]))]
  /\ matricesFile' = SaveMatrices(ret')
  /\ firstRet' = IF persistCall = 0 THEN ret' ELSE firstRet
  /\ persistCall' = IF persistCall = 0 THEN calls ELSE persistCall
  /\ edges' = {}
  /\ pc' = "returned"
  /\ UNCHANGED <<calls, count, n_adjacent, params, csv, status, nextTask, ran>>
  /\ UNCHANGED getVars
  /\ UNCHANGED isoVars

\* ------------------------------------------------ TranslatedSectionGet.get
\* A thread asks the LazyCellImg for the cell of section index: load the image,
\* read the tile's matrix and the shift.  (The threads are interchangeable:
\* thread 1 names whichever call is under way when another one starts.)
GetLoad(t, index) ==
  /\ pc = "returned"
  /\ gpc[t] = "idle"
  /\ t # 1 => gpc[1] # "idle"
  /\ index \in 0..(Len(ret) - 1)
  /\ gpc' = [gpc EXCEPT ![t] = "copy"]
  /\ gidx' = [gidx EXCEPT ![t] = index]
  /\ gshift' = [gshift EXCEPT ![t] = ShiftOf(ret[index + 1])]
  /\ grow' = [grow EXCEPT ![t] = 0]
  /\ UNCHANGED aimg
  /\ UNCHANGED mainVars
  /\ UNCHANGED isoVars

\* ImgUtil.copy(imgS, self.aimg): one row of the translated view is written
\* into the buffer of the TranslatedSectionGet instance.
GetCopyRow(t) ==
  /\ pc = "returned"
  /\ gpc[t] = "copy"
  /\ grow[t] < Height
  /\ aimg' = [aimg EXCEPT ![grow[t] + 1] =
                TranslatedRow(gidx[t], gshift[t], grow[t] + 1)]
  /\ grow' = [grow EXCEPT ![t] = grow[t] + 1]
  /\ UNCHANGED <<gpc, gidx, gshift>>
  /\ UNCHANGED mainVars
  /\ UNCHANGED isoVars

\* return Cell(cell_dimensions, [0, 0, index], self.aimg.update(None)): the
\* cell handed back holds the buffer itself.
GetReturn(t) ==
  /\ pc = "returned"
  /\ gpc[t] = "copy"
  /\ grow[t] = Height
  /\ gpc' = [gpc EXCEPT ![t] = "idle"]
  /\ gidx' = [gidx EXCEPT ![t] = 0]
  /\ gshift' = [gshift EXCEPT ![t] = <<0, 0>>]
  /\ grow' = [grow EXCEPT ![t] = 0]
  /\ UNCHANGED aimg
  /\ UNCHANGED mainVars
  /\ UNCHANGED isoVars

\* Between two runs of the script the source directory gets or loses
\* sections, or params["meshResolution"] is edited: filepaths and params are
\* module-level values computed afresh by the next run.  The process of the
\* earlier run has ended, csvDir stays as it left it.
ChangeInputs(c, r) ==
  /\ pc \in {"returned", "failed"}
  /\ calls < MaxCalls
  /\ <<c, r>> # <<count, params>>
  /\ count' = c
  /\ params' = r
  /\ pc' = "idle"
  /\ ret' = <<>>
  /\ work' = {}
  /\ edges' = {}
  /\ fixedTiles' = {}
  /\ status' = <<>>
  /\ UNCHANGED <<calls, n_adjacent, csv, matricesFile, nextTask, ran, firstRet,
                 persistCall>>
  /\ UNCHANGED getVars
  /\ UNCHANGED isoVars

\* The registration: everything align does, over any number of runs.
NextAlign ==
  \/ StartCall
  \/ Submit
  \/ \E k \in 1..Len(status), exc \in {"none", "match", "sift"},
        m \in DenseCounts, s \in SiftCounts : RunTask(k, exc, m, s)
  \/ \E k \in 1..Len(status) : TakeFailure(k)
  \/ FinishBatch
  \/ \E onNull \in {"raise", "link"} : MakeLinkedTiles(onNull)
  \/ \E models \in OptimizeModels(count, {FixedIndex(count)}) : Optimize(models)

\* The threads that read the volume viewAligned shows.
NextGet ==
  \/ \E t \in Threads, index \in 0..(MaxCount - 1) : GetLoad(t, index)
  \/ \E t \in Threads : GetCopyRow(t)
  \/ \E t \in Threads : GetReturn(t)

\* The registration run again and again, with the inputs edited in between.
NextRerun ==
  \/ NextAlign
  \/ \E c \in 1..MaxCount, r \in MeshResolutions : ChangeInputs(c, r)

Next == NextRerun \/ NextGet

\* The whole script.
Spec == Init /\ [][Next]_vars

\* The registration alone: no thread reads the volume (reading it changes
\* nothing the registration reads).
SpecAlign == Init /\ [][NextAlign]_vars

\* The registration with a main thread that keeps running: a step of align
\* that can be taken is taken.
SpecAlignFair == Init /\ [][NextAlign]_vars /\ WF_vars(NextAlign)

\* The registration run repeatedly over one csvDir with edited inputs.
SpecRerun == Init /\ [][NextRerun]_vars

\* The runs in which every extraction succeeds by block matching, with the
\* volume read after align returns.  Every behaviour of SpecView is a
\* behaviour of Spec.
GoodDenseCounts ==
  {m \in DenseCounts :
     \A r \in MeshResolutions : ~NeedsSIFT(m, MeshPointCount(r))}

NextView ==
  \/ StartCall
  \/ Submit
  \/ \E k \in 1..Len(status), m \in GoodDenseCounts, s \in SiftCounts :
        RunTask(k, "none", m, s)
  \/ FinishBatch
  \/ MakeLinkedTiles("raise")
  \/ \E models \in OptimizeModels(count, {FixedIndex(count)}) : Optimize(models)
  \/ NextGet

SpecView == Init /\ [][NextView]_vars

\* ------------------------------------------------------- lib/isoview.py
\* The functions are modelled statement by statement as Python 2 runs them.
\* (Lines 270-274 hold the two sides of an unresolved merge; both sides make
\* the same write call, and the function is modelled with either.)

\* What a TM00 folder can hold: the camera indices of its KLB files that match
\* the pattern (none, three cameras, all four).
FolderContents == {{}, {0, 1, 2}, {0, 1, 2, 3}}

\* The argument deconvolveAndSave is called with: the list literals [0, 1] and
\* [2, 3].
IndicesArg == "list"

\* "CM0%i-CM0%i-deconvolved" % indices takes two values from a tuple only; any
\* other operand is one value, and the format raises TypeError.
FormatRaises(arg) == arg # "tuple"

\* matrices_name = tm_dirname + "-matrices", within the time point's csv_dir.
MatricesName == "matrices"

\* lib.registration.saveMatrices(name, matrices, csv_dir) writes the file
\* name + ".csv" of csv_dir, and loadMatrices(name, csv_dir) reads that file.
SavedMatricesFile(name) == name \o ".csv"

\* One turn of the generator iterTMs for a folder: filepaths = {} and, for
\* each matching file, filepaths[camera_index].append(...), which raises
\* KeyError at the first one since the dict has no such key; with no matching
\* file the empty dict is yielded.
IterTMs(folder) ==
  IF folder # {}
  THEN [raised |-> "KeyError", filepaths |-> {}]
  ELSE [raised |-> "", filepaths |-> {}]

\* deconvolveTimePoints is called: readFloats, KLBLoader, the pool, and the
\* validation loop starts.
DeconvolveTimePoints ==
  /\ ipc = "idle"
  /\ ipc' = "validate"
  /\ ivalid' = 1
  /\ UNCHANGED <<tmFolders, ilast, invoked, targetFiles, dpc, dtm, dkind,
                 dsubmitted, dloaded, druns>>
  /\ UNCHANGED <<mainVars, getVars>>

\* for filepaths in iterTMs(): if 4 != len(filepaths): print ... tm_dir ...;
\* return.  tm_dir is a local of iterTMs, so the print raises NameError.
ValidateFolder ==
  /\ ipc = "validate"
  /\ ivalid <= Len(tmFolders)
  /\ LET r == IterTMs(tmFolders[ivalid])
     IN IF r.raised # ""
        THEN /\ ipc' = r.raised
             /\ UNCHANGED <<ivalid, ilast>>
        ELSE /\ ilast' = ivalid
             /\ IF NumCameras # Cardinality(r.filepaths)
                THEN /\ ipc' = "NameError"
                     /\ UNCHANGED ivalid
                ELSE /\ ivalid' = ivalid + 1
                     /\ UNCHANGED ipc
  /\ UNCHANGED <<tmFolders, invoked, targetFiles, dpc, dtm, dkind, dsubmitted,
                 dloaded, druns>>
  /\ UNCHANGED <<mainVars, getVars>>

\* The validation loop is over.  prepareCoarseTransforms takes
\* iterTMs().next(), which raises StopIteration when there is no folder.
\* Then "for filenames in iterTMs(): deconvolveTimePoint(filepaths, ...)"
\* hands over the dict bound to filepaths by the validation loop, whatever
\* folder the loop is at; deconvolveTimePoint slices it (filepaths[:2]), which
\* raises TypeError for a dict.
PrepareCoarseTransforms ==
  /\ ipc = "validate"
  /\ ivalid > Len(tmFolders)
  /\ IF Len(tmFolders) = 0
     THEN /\ ipc' = "StopIteration"
          /\ UNCHANGED invoked
     ELSE IF IterTMs(tmFolders[1]).raised # ""
     THEN /\ ipc' = IterTMs(tmFolders[1]).raised
          /\ UNCHANGED invoked
     ELSE /\ invoked' = <<ilast>>
          /\ ipc' = "TypeError"
  /\ UNCHANGED <<tmFolders, ivalid, ilast, targetFiles, dpc, dtm, dkind,
                 dsubmitted, dloaded, druns>>
  /\ UNCHANGED <<mainVars, getVars>>

\* deconvolveTimePoint(filepaths, targetDir, ...) is called for time point tm
\* with a list or a dict of the four paths: tm_dirname from filepaths[0], and
\* csv_dir is made if not there.
DeconvolveTimePoint(tm, kind) ==
  /\ dpc \in {"idle", "TypeError", "done"}
  /\ druns < MaxRuns
  /\ druns' = druns + 1
  /\ dtm' = tm
  /\ dkind' = kind
  /\ dsubmitted' = 0
  /\ dloaded' = FALSE
  /\ targetFiles' = targetFiles \cup {<<tm, "csv_dir">>}
  /\ dpc' = "register"
  /\ UNCHANGED <<tmFolders, ipc, ivalid, ilast, invoked>>
  /\ UNCHANGED <<mainVars, getVars>>

\* Step 1: if os.path.exists(os.path.join(csv_dir, matrices_name)) the
\* matrices are loaded; else two computeForwardTransforms tasks are submitted
\* for filepaths[:2] and filepaths[2:], awaited, and saveMatrices stores the
\* result.
FineRegistration ==
  /\ dpc = "register"
  /\ IF <<dtm, MatricesName>> \in targetFiles
     THEN /\ dloaded' = TRUE
          /\ dpc' = "deconvolve"
          /\ UNCHANGED <<dsubmitted, targetFiles>>
     ELSE IF dkind = "dict"
     THEN /\ dpc' = "TypeError"
          /\ UNCHANGED <<dloaded, dsubmitted, targetFiles>>
     ELSE /\ dsubmitted' = 2
          /\ targetFiles' =
               targetFiles \cup {<<dtm, SavedMatricesFile(MatricesName)>>}
          /\ dpc' = "deconvolve"
          /\ UNCHANGED dloaded
  /\ UNCHANGED <<tmFolders, ipc, ivalid, ilast, invoked, dtm, dkind, druns>>
  /\ UNCHANGED <<mainVars, getVars>>

\* Step 4: deconvolveAndSave([0, 1]) formats the file name first; were that
\* to pass, an output file not yet there would be computed and written, for
\* [0, 1] and then for [2, 3].
DeconvolveAndSave ==
  /\ dpc = "deconvolve"
  /\ IF FormatRaises(IndicesArg)
     THEN /\ dpc' = "TypeError"
          /\ UNCHANGED targetFiles
     ELSE /\ dpc' = "done"
          /\ targetFiles' = targetFiles \cup
               {<<dtm, "CM00-CM01-deconvolved.zip">>,
                <<dtm, "CM02-CM03-deconvolved.zip">>}
  /\ UNCHANGED <<tmFolders, ipc, ivalid, ilast, invoked, dtm, dkind,
                 dsubmitted, dloaded, druns>>
  /\ UNCHANGED <<mainVars, getVars>>

\* srcDir holds up to MaxFolders time-point folders; nothing of the section
\* registration runs.
InitIso ==
  /\ calls = 0
  /\ pc = "idle"
  /\ count = 1
  /\ n_adjacent = 1
  /\ params = 10
  /\ csv = [p \in AllPairs |-> <<>>]
  /\ matricesFile = <<>>
  /\ status = <<>>
  /\ nextTask = 1
  /\ ran = <<>>
  /\ edges = {}
  /\ fixedTiles = {}
  /\ work = {}
  /\ ret = <<>>
  /\ firstRet = <<>>
  /\ persistCall = 0
  /\ aimg = ZeroImg
  /\ gpc = [t \in Threads |-> "idle"]
  /\ gidx = [t \in Threads |-> 0]
  /\ gshift = [t \in Threads |-> <<0, 0>>]
  /\ grow = [t \in Threads |-> 0]
  /\ IsoviewIdle
  /\ \E n \in 0..MaxFolders : tmFolders \in [1..n -> FolderContents]

NextIso ==
  \/ DeconvolveTimePoints
  \/ ValidateFolder
  \/ PrepareCoarseTransforms
  \/ \E tm \in 1..MaxFolders, kind \in {"list", "dict"} :
        DeconvolveTimePoint(tm, kind)
  \/ FineRegistration
  \/ DeconvolveAndSave

SpecIso == InitIso /\ [][NextIso]_vars

\* ------------------------------------------------------------- properties
\* The pairs (i, i+k), 1 <= k <= n_adjacent, i+k < count.
ExpectedPairs ==
  {p \in AllPairs : p[2] < count /\ p[2] - p[1] <= n_adjacent}

BatchCompleted == \A k \in 1..Len(status) : status[k] = "done"

\* C1: the pairs for which pointmatchingTasks schedules an extraction, and the
\* pairs makeLinkedTiles connects, are exactly the pairs (i, i+k) with
\* 1 <= k <= n_adjacent and i+k < count.
C1_AllAdjacentPairs ==
  /\ (pc = "link" /\ BatchCompleted) =>
       {Tasks[k] : k \in 1..Len(status)} = ExpectedPairs
  /\ pc = "optimize" => {e.pair : e \in edges} = ExpectedPairs

\* C2: a call of extractBlockMatches for a pair whose pointmatches file exists
\* loads nothing, matches nothing, runs no SIFT and writes nothing: it returns
\* at once, and no step of any run changes a pointmatches file that exists.
C2_ExistingPairUntouched ==
  [][/\ \A p \in AllPairs : csv[p] # <<>> => csv'[p] = csv[p]
     /\ \A k \in 1..Len(status) :
          (/\ pc = "ensure"
           /\ status[k] = "submitted"
           /\ status'[k] \in {"done", "raised"}
           /\ csv[Tasks[k]] # <<>>)
          => /\ csv' = csv
             /\ status'[k] = "done"
             /\ ran'[k] = [outcome |-> "skipped", dense |-> -1,
                           sift |-> FALSE, siftSize |-> -1]]_vars

\* A task has just been run for a pair whose file existed, in a later run.
C2_Witness ==
  /\ calls >= 2
  /\ \E k \in 1..Len(ran) :
        ran[k].outcome = "skipped" /\ csv[Tasks[k]] # <<>>

\* C3: an exception raised in one pair's extraction is handled inside the task
\* (it never leaves the task), and when ensurePointMatches is over every task
\* it was to submit has run to completion.
C3_FailureIsolated ==
  /\ \A k \in 1..Len(status) : status[k] # "raised"
  /\ pc = "link" => BatchCompleted

\* C4: makeLinkedTiles does not fail on a pair whose correspondence set is
\* missing or unreadable: it leaves the pair unconnected, connects the other
\* pairs and returns the tiles.
C4_MissingPairSkipped ==
  /\ pc # "failed"
  /\ \A e \in edges : e.matches # <<>>
  /\ pc = "optimize" =>
       {e.pair : e \in edges} = {Tasks[k] : k \in {j \in 1..Len(Tasks) : ~MissingAt(j)}}

RoundNearest(v) == (2 * v + Den) \div (2 * Den)

\* The translation entries of a flattened 3x4 matrix: rows 0 and 1, column 2.
TxOf(matrix) == matrix[0 * MatCols + 2 + 1]
TyOf(matrix) == matrix[1 * MatCols + 2 + 1]

\* C6: get(index) shifts the raw image by (round(tx), round(ty)), the rounded
\* x and y translation entries of the matrix align stored for the tile.
C6_ShiftIsRoundedTranslation ==
  \A t \in Threads :
    gpc[t] = "copy" =>
      gshift[t] = <<RoundNearest(TxOf(ret[gidx[t] + 1])),
                    RoundNearest(TyOf(ret[gidx[t] + 1]))>>

\* C7: a call of get that returns while no other call for the same index is
\* under way hands back exactly the translated pixels of its own index,
\* whatever calls for other indices run at the same time.
C7_ConcurrentGetsIndependent ==
  [][\A t \in Threads :
       (/\ pc = "returned" /\ pc' = "returned" /\ calls' = calls
        /\ gpc[t] = "copy" /\ gpc'[t] = "idle"
        /\ \A u \in Threads \ {t} : gpc[u] = "copy" => gidx[u] # gidx[t])
       => aimg' = Translated(gidx[t], gshift[t])]_vars

IdentityFlat ==
  [j \in 1..(MatRows * MatCols) |->
     IF j = 1 \/ j = MatCols + 2 THEN Den ELSE 0]

\* C8: an optimization run of align over count tiles fixes exactly the tile
\* at index floor(count / 2), and returns the identity for that tile.
C8_MiddleTileFixed ==
  (pc = "returned" /\ "optimize" \in work)
    => /\ Len(ret) = count
       /\ \E f \in 0..(count - 1) :
            /\ fixedTiles = {f}
            /\ 2 * f <= count
            /\ count <= 2 * f + 1
            /\ ret[f + 1] = IdentityFlat

\* An optimization over three tiles has moved both free tiles.
C8_Witness ==
  /\ pc = "returned"
  /\ "optimize" \in work
  /\ count >= 3
  /\ \A i \in 1..count : (i - 1) \notin fixedTiles => ret[i] # IdentityFlat

C10_NoMatchesIsFailure ==
  \A k \in 1..Len(ran) :
    (ran[k].sift /\ ran[k].siftSize = 0)
      => (ran[k].outcome # "saved" /\ csv[Tasks[k]] = <<>>)

\* C11: a correspondence set stored for the same two images under other
\* extraction parameters does not make extractBlockMatches skip the pair.
C11_OtherParamsNotSkipped ==
  [][\A k \in 1..Len(status) :
       (/\ pc = "ensure"
        /\ status[k] = "submitted"
        /\ status'[k] \in {"done", "raised"}
        /\ csv[Tasks[k]] # <<>>
        /\ csv[Tasks[k]][1].params # params)
       => ran'[k].outcome # "skipped"]_vars

\* C12: for one image and any n_adjacent, align schedules no extraction,
\* builds one tile with no connection, does not fail, comes to return, and
\* what an optimization run returns is exactly one transform, the identity.
C12_SingleImageIdentity ==
  /\ [](count = 1 =>
         /\ Len(Tasks) = 0
         /\ Len(status) = 0
         /\ edges = {}
         /\ pc # "failed"
         /\ (pc = "returned" /\ "optimize" \in work) => ret = <<IdentityFlat>>)
  /\ ((count = 1 /\ pc = "ensure") ~> (pc = "returned"))

\* align has optimized a list of one image, with n_adjacent above one.
C12_Witness ==
  /\ count = 1
  /\ n_adjacent > 1
  /\ pc = "returned"
  /\ "optimize" \in work
  /\ Len(ret) = 1

\* C16: whenever align has returned, it has returned one transform per image
\* of the list it was given, so every index 0..count-1 of the volume has one.
C16_OneTransformPerImage ==
  pc = "returned" =>
    /\ Len(ret) = count
    /\ \A index \in 0..(count - 1) : index + 1 \in DOMAIN ret

\* C14: when every time-point folder holds the KLB files of the four cameras,
\* deconvolveTimePoints has, when it ends, handed each folder's own file paths
\* to deconvolveTimePoint exactly once, in sorted folder order.
AllFoldersValid ==
  \A k \in 1..Len(tmFolders) : Cardinality(tmFolders[k]) = NumCameras

C14_OncePerFolderOwnPaths ==
  (ipc \notin {"idle", "validate"} /\ AllFoldersValid)
    => invoked = [k \in 1..Len(tmFolders) |-> k]

\* C15: a call of deconvolveTimePoint for a time point whose fine-registration
\* matrices an earlier call has saved loads them and submits no
\* computeForwardTransforms.
C15_SavedMatricesReused ==
  [][(/\ dpc = "register"
      /\ dpc' # "register"
      /\ <<dtm, SavedMatricesFile(MatricesName)>> \in targetFiles)
     => (dloaded' /\ dsubmitted' = 0)]_vars

=============================================================================
